---- MODULE Spec2Model ----
(***************************************************************************)
(* A model of autoscrape's ManualControlScraper                            *)
(* (src/autoscrape/scrapers/manual.py): the depth-first crawl run(), the   *)
(* pagination follower keep_clicking_next_btns(), the input plan           *)
(* generator make_input_generator() and the snapshot store.                *)
(*                                                                         *)
(* Python strings are sequences of one-character strings, so that          *)
(* splitting, lower-casing and substring search are computed, not assumed. *)
(***************************************************************************)
EXTENDS Integers, Sequences, FiniteSets, TLC

VARIABLES cfg, site, history, stack, kc, gen, status, trace, files

vars == <<cfg, site, history, stack, kc, gen, status, trace, files>>

(***************************************************************************)
(* Bounds of the model.                                                    *)
(***************************************************************************)
\* largest maxdepth a crawl is configured with
MaxCrawlDepth == 2
\* largest formdepth a crawl is configured with
MaxFormDepth == 3
\* longest chain of "next" result pages of a site
MaxChain == 3
\* next-button clicks after which the model stops following an endless chain
MaxHops == 5
\* longest form_input_range and largest input_minlength drawn for the generator
MaxIter == 2

\* longest input_strings drawn for the input generator
MaxStrLen == 4

(***************************************************************************)
(* Strings.                                                                *)
(***************************************************************************)
Last(s) == s[Len(s)]

Front(s) == SubSeq(s, 1, Len(s) - 1)

UpperCase ==
    << "A", "B", "C", "D", "E", "F", "G", "H", "I", "J", "K", "L", "M",
       "N", "O", "P", "Q", "R", "S", "T", "U", "V", "W", "X", "Y", "Z" >>

\* string.ascii_lowercase
LowerCase ==
    << "a", "b", "c", "d", "e", "f", "g", "h", "i", "j", "k", "l", "m",
       "n", "o", "p", "q", "r", "s", "t", "u", "v", "w", "x", "y", "z" >>

LowerChar(c) ==
    IF \E i \in 1..Len(UpperCase) : UpperCase[i] = c
    THEN LowerCase[CHOOSE i \in 1..Len(UpperCase) : UpperCase[i] = c]
    ELSE c

\* str.lower()
Lower(s) == [i \in 1..Len(s) |-> LowerChar(s[i])]

\* sub in s
Contains(sub, s) ==
    \E i \in 0..(Len(s) - Len(sub)) : SubSeq(s, i + 1, i + Len(sub)) = sub

Backslash == "\\"

\* re.split(r'(?<!\\)<delim>', s): s is cut at every delim that is not
\* directly preceded by a backslash; the pieces keep all other characters.
RECURSIVE SplitFrom(_, _, _, _, _)
SplitFrom(s, delim, i, cur, acc) ==
    IF i > Len(s) THEN Append(acc, cur)
    ELSE IF s[i] = delim /\ (i = 1 \/ s[i - 1] # Backslash)
         THEN SplitFrom(s, delim, i + 1, <<>>, Append(acc, cur))
         ELSE SplitFrom(s, delim, i + 1, Append(cur, s[i]), acc)

SplitUnescaped(s, delim) == SplitFrom(s, delim, 1, <<>>, <<>>)

\* str.replace("\\" + ch, ch): left to right, non-overlapping
RECURSIVE UnescapeFrom(_, _, _)
UnescapeFrom(s, ch, i) ==
    IF i > Len(s) THEN <<>>
    ELSE IF i < Len(s) /\ s[i] = Backslash /\ s[i + 1] = ch
         THEN <<ch>> \o UnescapeFrom(s, ch, i + 2)
         ELSE <<s[i]>> \o UnescapeFrom(s, ch, i + 1)

Unescape(s, ch) == UnescapeFrom(s, ch, 1)

Digits == << "0", "1", "2", "3", "4", "5", "6", "7", "8", "9" >>

IsDigit(c) == \E i \in 1..Len(Digits) : Digits[i] = c

DigitValue(c) == (CHOOSE i \in 1..Len(Digits) : Digits[i] = c) - 1

\* int(s) succeeds (on the characters the model draws: no sign, no blank)
IsInt(s) == Len(s) > 0 /\ \A i \in 1..Len(s) : IsDigit(s[i])

RECURSIVE ParseInt(_)
ParseInt(s) ==
    IF Len(s) = 0 THEN 0 ELSE 10 * ParseInt(Front(s)) + DigitValue(Last(s))

\* the position of the first ch of s, 0 when there is none
FirstIndex(s, ch) ==
    IF \E i \in 1..Len(s) : s[i] = ch
    THEN CHOOSE i \in 1..Len(s) : s[i] = ch /\ \A j \in 1..(i - 1) : s[j] # ch
    ELSE 0

RECURSIVE Flatten(_)
Flatten(ss) == IF Len(ss) = 0 THEN <<>> ELSE Head(ss) \o Flatten(Tail(ss))

(***************************************************************************)
(* The input plan generator.  A generator is modelled by the plans it      *)
(* yields and the exception, if any, that its body raises after them.      *)
(***************************************************************************)
NoError == "none"

Assignment(index, str) == [index |-> index, string |-> str]


\* itertools.product(chars, repeat=length), in the order it is produced
RECURSIVE Product(_, _)
Product(chars, length) ==
    IF length = 0 THEN << <<>> >>
    ELSE LET rest == Product(chars, length - 1)
         IN  Flatten([i \in 1..Len(chars) |->
                        [j \in 1..Len(rest) |-> <<chars[i]>> \o rest[j]]])

CharacterIterationInputGenerator(c, length) ==
    LET chars == IF Len(c.form_input_range) > 0 THEN c.form_input_range
                 ELSE LowerCase
    IN  IF length < 0
        THEN [plans |-> <<>>, err |-> "ValueError"]
        ELSE LET prod == Product(chars, length)
             IN  [plans |-> [k \in 1..Len(prod) |->
                               << Assignment(c.form_input_index,
                                    IF Len(c.wildcard) > 0
                                    THEN prod[k] \o c.wildcard
                                    ELSE prod[k]) >>],
                  err |-> NoError]

FixedStringsPlans(c) ==
    LET indiv_searches == SplitUnescaped(c.input_strings, ",")
    IN  [plans |-> [k \in 1..Len(indiv_searches) |->
                      << Assignment(c.form_input_index, indiv_searches[k]) >>],
         err |-> NoError]


\* an entry whose value keeps its escapes
MultiManualEntryRaw(indiv_inputs) ==
    LET colon == FirstIndex(indiv_inputs, ":")
        ix    == SubSeq(indiv_inputs, 1, colon - 1)
        str   == SubSeq(indiv_inputs, colon + 1, Len(indiv_inputs))
    IN  IF colon = 0 \/ ~IsInt(ix)
        THEN [ok |-> FALSE, entry |-> Assignment(0, <<>>)]
        ELSE [ok |-> TRUE, entry |-> Assignment(ParseInt(ix), str)]

\* one "<ix>:<string>" entry of multi_manual; ok is FALSE where the code
\* raises ValueError (no colon to unpack, or int(ix) fails)
MultiManualEntry(indiv_inputs) ==
    LET colon == FirstIndex(indiv_inputs, ":")
        ix    == SubSeq(indiv_inputs, 1, colon - 1)
        str   == SubSeq(indiv_inputs, colon + 1, Len(indiv_inputs))
    IN  IF colon = 0 \/ ~IsInt(ix)
        THEN [ok |-> FALSE, entry |-> Assignment(0, <<>>)]
        ELSE [ok |-> TRUE,
              entry |-> Assignment(ParseInt(ix),
                                   Unescape(Unescape(str, ","), ";"))]

MultiManualGroup(inp) ==
    LET indiv_inputs_list == SplitUnescaped(inp, ",")
        entries == [k \in 1..Len(indiv_inputs_list) |->
                      MultiManualEntry(indiv_inputs_list[k])]
    IN  [ok |-> \A k \in 1..Len(entries) : entries[k].ok,
         plan |-> [k \in 1..Len(entries) |-> entries[k].entry]]

MultiManualPlans(c) ==
    LET inputs == SplitUnescaped(c.input_strings, ";")
        groups == [k \in 1..Len(inputs) |-> MultiManualGroup(inputs[k])]
        bad    == {k \in 1..Len(groups) : ~groups[k].ok}
        n      == IF bad = {} THEN Len(groups)
                  ELSE (CHOOSE k \in bad : \A j \in bad : k <= j) - 1
    IN  [plans |-> [k \in 1..n |-> groups[k].plan],
         err |-> IF bad = {} THEN NoError ELSE "ValueError"]

\* a generator that splits input_strings even when it is empty
MakeInputGeneratorLax(c) ==
    IF c.input_type = "character_iteration"
    THEN CharacterIterationInputGenerator(c, c.input_minlength)
    ELSE IF c.input_type = "fixed_strings"
    THEN FixedStringsPlans(c)
    ELSE IF c.input_type = "multi_manual"
    THEN MultiManualPlans(c)
    ELSE [plans |-> <<>>, err |-> "Exception"]

MakeInputGenerator(c) ==
    IF c.input_type = "character_iteration"
    THEN CharacterIterationInputGenerator(c, c.input_minlength)
    ELSE IF c.input_type = "fixed_strings" /\ Len(c.input_strings) > 0
    THEN FixedStringsPlans(c)
    ELSE IF c.input_type = "multi_manual" /\ Len(c.input_strings) > 0
    THEN MultiManualPlans(c)
    ELSE [plans |-> <<>>, err |-> "Exception"]

(***************************************************************************)
(* The sites crawled.  A site is a link graph of pages with forms, and the *)
(* chain of result pages behind its search form: result page k has a       *)
(* "next" control while k < chain, or always when the chain is cyclic.     *)
(***************************************************************************)
TxtAbout == << "A", "b", "o", "u", "t" >>

TxtSearch == << "S", "e", "a", "r", "c", "h", " ", "r", "e", "s", "u", "l", "t", "s" >>

TxtFind == << "F", "i", "n", "d" >>

TxtHome == << "H", "o", "m", "e" >>

TxtNews == << "N", "e", "w", "s", "l", "e", "t", "t", "e", "r" >>

TxtLogin == << "L", "o", "g", "i", "n" >>

TxtFirstName == << "E", "n", "t", "e", "r", " ", "F", "i", "r", "s", "t", " ", "N", "a", "m", "e" >>

TxtFirstNameLower == << "f", "i", "r", "s", "t", " ", "n", "a", "m", "e" >>

TxtPrev == << "P", "r", "e", "v" >>

TxtNextUpper == << "N", "E", "X", "T", " ", "P", "A", "G", "E" >>

TxtNextMixed == << "N", "e", "x", "t", " ", "P", "a", "g", "e", " ", ">" >>

TxtNextOnly == << "N", "e", "x", "t" >>

\* the page a browser shows before initialize(baseurl)
Blank == 0

BaseUrl == 1

\* result page k of the chain behind the search form
ResultBase == 100

\* where the second "next"-like control of a result page leads
LastResult == 199

Link(text, to) == [text |-> text, to |-> to]

NoPage == [forms |-> <<>>, links |-> <<>>, buttons |-> <<>>]

\* the graph without any matching form
GraphPlain(p) ==
    CASE p = 1 -> [forms |-> <<TxtNews>>,
                   links |-> << Link(TxtAbout, 2), Link(TxtSearch, 3),
                                Link(TxtHome, 1) >>,
                   buttons |-> <<>>]
      [] p = 2 -> [forms |-> <<>>,
                   links |-> << Link(TxtHome, 1) >>,
                   buttons |-> <<>>]
      [] p = 3 -> [forms |-> <<TxtLogin>>, links |-> <<>>, buttons |-> <<>>]
      [] OTHER -> NoPage

\* the search form is one link below the base page, and two links below it
\* by way of About; it comes after a form that does not match and before a
\* second one that does
GraphDeep(p) ==
    CASE p = 1 -> [forms |-> <<TxtNews>>,
                   links |-> << Link(TxtAbout, 2), Link(TxtSearch, 3) >>,
                   buttons |-> <<>>]
      [] p = 2 -> [forms |-> <<>>,
                   links |-> << Link(TxtHome, 1), Link(TxtFind, 3) >>,
                   buttons |-> <<>>]
      [] p = 3 -> [forms |-> <<TxtLogin, TxtFirstName, TxtFirstNameLower>>,
                   links |-> << Link(TxtHome, 1) >>,
                   buttons |-> <<>>]
      [] OTHER -> NoPage

\* a single page with one matching form
GraphSingle(p) ==
    CASE p = 1 -> [forms |-> <<TxtFirstNameLower>>,
                   links |-> <<>>,
                   buttons |-> <<>>]
      [] OTHER -> NoPage

Graphs == {"plain", "deep", "single"}

HasNext(s, k) == s.cyclic \/ k < s.chain

\* result page k: its controls, each with the page a click on it leads to
ResultPage(s, k) ==
    LET succ == IF s.cyclic THEN ResultBase + ((k + 1) % s.chain)
                ELSE ResultBase + k + 1
    IN  [forms |-> <<>>,
         links |-> <<>>,
         buttons |->
            IF ~HasNext(s, k) THEN << Link(TxtPrev, Blank), Link(TxtNextOnly, Blank) >>
            ELSE IF k % 2 = 0
                 THEN << Link(TxtPrev, Blank), Link(TxtNextUpper, succ),
                         Link(TxtNextMixed, LastResult) >>
                 ELSE << Link(TxtNextMixed, succ) >>]

PageOf(s, p) ==
    IF p >= ResultBase /\ p < LastResult THEN ResultPage(s, p - ResultBase)
    ELSE IF s.graph = "plain" THEN GraphPlain(p)
    ELSE IF s.graph = "deep" THEN GraphDeep(p)
    ELSE IF s.graph = "single" THEN GraphSingle(p)
    ELSE NoPage

(***************************************************************************)
(* The browser behind self.control: a history of pages, the last one being *)
(* the page shown.                                                         *)
(***************************************************************************)
Cur == Last(history)

CurPage == PageOf(site, Cur)

\* control.back(): one step back in the history
Back(h) == IF Len(h) > 1 THEN Front(h) ELSE h

\* a click or a submit that loads page p
Navigate(h, p) == Append(h, p)

\* control.form_vectors(type="text")
FormVectors == CurPage.forms

\* control.button_vectors()
ButtonVectors == [i \in 1..Len(CurPage.buttons) |-> CurPage.buttons[i].text]

\* control.link_vectors()
LinkVectors == [i \in 1..Len(CurPage.links) |-> CurPage.links[i].text]

\* control.scraper.page_html: result pages two hops apart show the same HTML
PageHtml(p) == IF p >= ResultBase + 2 /\ p < LastResult THEN p - 2 ELSE p

(***************************************************************************)
(* Configurations (the constructor's keyword arguments).                   *)
(***************************************************************************)
\* output_data_dir=None, the default
DirNone == [isNone |-> TRUE, path |-> <<>>]

DirEmpty == [isNone |-> FALSE, path |-> <<>>]

DirOut == [isNone |-> FALSE, path |-> << "o", "u", "t" >>]

OutputDirs == {DirNone, DirEmpty, DirOut}

InputCfg(type, strings, minlength, wildcard, range) ==
    [input_type |-> type, input_strings |-> strings,
     input_minlength |-> minlength, wildcard |-> wildcard,
     form_input_range |-> range]

InputOne == InputCfg("fixed_strings", <<"x">>, 1, <<>>, <<>>)

InputTwo == InputCfg("fixed_strings", <<"a", ",", "b">>, 1, <<>>, <<>>)

InputMulti ==
    InputCfg("multi_manual",
             << "0", ":", "a", ",", "1", ":", "b", ";", "0", ":", "c" >>,
             1, <<>>, <<>>)

InputChars == InputCfg("character_iteration", <<>>, 1, <<"%">>, <<"a", "b">>)

\* fixed_strings without any string
InputEmpty == InputCfg("fixed_strings", <<>>, 1, <<>>, <<>>)

\* the second search has no "<index>:" before its value
InputBadMulti ==
    InputCfg("multi_manual", << "0", ":", "a", ";", "b" >>, 1, <<>>, <<>>)

\* multi_manual without any string
InputEmptyMulti == InputCfg("multi_manual", <<>>, 1, <<>>, <<>>)

\* an input_type that is none of the three
InputBogus == InputCfg("regex", <<"x">>, 1, <<>>, <<>>)

CrawlInputs ==
    {InputOne, InputTwo, InputMulti, InputChars, InputEmpty, InputBadMulti,
     InputEmptyMulti, InputBogus}

Config(maxdepth, formdepth, dir, inp) ==
    [maxdepth |-> maxdepth, formdepth |-> formdepth,
     next_match |-> << "n", "e", "x", "t", " ", "p", "a", "g", "e" >>,
     form_match |-> << "f", "i", "r", "s", "t", " ", "n", "a", "m", "e" >>,
     link_priority |-> << "s", "e", "a", "r", "c", "h" >>,
     output_data_dir |-> dir,
     form_input_index |-> 0,
     input_type |-> inp.input_type, input_strings |-> inp.input_strings,
     input_minlength |-> inp.input_minlength, wildcard |-> inp.wildcard,
     form_input_range |-> inp.form_input_range]

\* link_priority="Search", written with a capital
PrioritySearchCapital == << "S", "e", "a", "r", "c", "h" >>

\* next_match="Next Page", written with capitals
NextMatchCapitals == << "N", "e", "x", "t", " ", "P", "a", "g", "e" >>

Site(graph, chain, cyclic) == [graph |-> graph, chain |-> chain, cyclic |-> cyclic]

\* chains that end after 0..MaxChain hops, and endless ones of period 1 and 2
Chains ==
    {[chain |-> n, cyclic |-> FALSE] : n \in 0..MaxChain}
        \cup {[chain |-> n, cyclic |-> TRUE] : n \in 1..2}

\* a site without a search form is crawled with one pagination setting
CrawlSetups ==
    {[cfg |-> Config(m, 0, d, InputOne), site |-> Site("plain", 0, FALSE)] :
        m \in (-1)..MaxCrawlDepth, d \in OutputDirs}
    \cup
    {[cfg |-> [Config(m, 0, DirOut, InputOne)
                  EXCEPT !.link_priority = PrioritySearchCapital],
      site |-> Site("plain", 0, FALSE)] : m \in 0..MaxCrawlDepth}
    \cup
    {[cfg |-> [Config(0, f, DirOut, InputOne)
                  EXCEPT !.next_match = NextMatchCapitals],
      site |-> Site("single", c.chain, c.cyclic)] :
        f \in 0..MaxFormDepth, c \in Chains}
    \cup
    {[cfg |-> Config(m, f, d, i), site |-> Site(g, c.chain, c.cyclic)] :
        m \in 0..MaxCrawlDepth, f \in 0..MaxFormDepth, d \in OutputDirs,
        i \in CrawlInputs, g \in {"deep", "single"}, c \in Chains}

(***************************************************************************)
(* Persistence.                                                            *)
(***************************************************************************)
Classes ==
    {"data_pages", "error_pages", "links_to_documents", "links_to_search",
     "search_pages"}

\* hashlib.sha256(html).digest().hex(): the digest of html, taken to be free
\* of collisions
Sha256(html) == << "sha256", html >>

\* os.path.join(self.output_data_dir, "screenshots") raises TypeError on None
ScreenshotRaises == cfg.output_data_dir.isNone

\* "if not self.output_data_dir: return"
SnapshotWrites ==
    ~cfg.output_data_dir.isNone /\ Len(cfg.output_data_dir.path) > 0

\* a store whose file names are taken from the URL
SaveTrainingPageByUrl(f, classname, p) ==
    IF SnapshotWrites
    THEN LET h == Sha256(p)
         IN  {x \in f : ~(x.class = classname /\ x.key = h)}
                \cup {[class |-> classname, key |-> h, html |-> PageHtml(p)]}
    ELSE f

\* the store after save_training_page(classname) on page p: the file
\* <classname>/<h>.html is opened with "w" and html written to it
SaveTrainingPage(f, classname, p) ==
    IF SnapshotWrites
    THEN LET h == Sha256(PageHtml(p))
         IN  {x \in f : ~(x.class = classname /\ x.key = h)}
                \cup {[class |-> classname, key |-> h, html |-> PageHtml(p)]}
    ELSE f

(***************************************************************************)
(* The observable actions of a crawl, in the order they are issued.        *)
(***************************************************************************)
Ev(op, depth, ix, page, n) ==
    [op |-> op, depth |-> depth, ix |-> ix, page |-> page, cls |-> "",
     val |-> <<>>, n |-> n]

\* a request to save page as a training page of class classname
EvSnapshot(classname, depth, page) ==
    [Ev("snapshot", depth, 0, page, IF SnapshotWrites THEN 1 ELSE 0)
        EXCEPT !.cls = classname]

\* a screenshot written
EvScreenshot(depth, page) == Ev("screenshot", depth, 0, page, 1)

EvInput(depth, form, page, a) ==
    [Ev("input", depth, form, page, a.index) EXCEPT !.val = a.string]

Count(t, P(_)) == Cardinality({i \in 1..Len(t) : P(t[i])})

IsBack(e) == e.op = "back" \/ e.op = "next_back"

IsAdvance(e) ==
    \/ e.op = "select_link" /\ e.n = 1
    \/ e.op = "select_button"
    \/ e.op = "submit"

(***************************************************************************)
(* The state of run() and keep_clicking_next_btns().                       *)
(***************************************************************************)
Frame(depth) ==
    [depth |-> depth, pc |-> "enter", hist |-> <<>>, ix |-> 0,
     links |-> <<>>, li |-> 1, plan |-> <<>>, ai |-> 1, scraped |-> FALSE,
     backs |-> 0, clicks |-> 0]

Top == stack[Len(stack)]

KcIdle ==
    [active |-> FALSE, pc |-> "idle", depth |-> 0, clicks |-> 0, backs |-> 0,
     maxdepth |-> 0, start |-> <<>>, end |-> <<>>, how |-> ""]

GenIdle == [state |-> "none", rest |-> <<>>, err |-> NoError, yielded |-> <<>>]

\* the generator object make_input_generator() returns
NewGenerator(c) ==
    LET g == MakeInputGenerator(c)
    IN  [state |-> "live", rest |-> g.plans, err |-> g.err, yielded |-> <<>>]

Running == status = "running"

InRun(pc) == Running /\ ~kc.active /\ Len(stack) > 0 /\ Top.pc = pc

Init ==
    /\ \E s \in CrawlSetups : cfg = s.cfg /\ site = s.site
    /\ history = <<Blank, BaseUrl>>
    /\ stack = <<Frame(0)>>
    /\ kc = KcIdle
    /\ gen = GenIdle
    /\ status = "running"
    /\ trace = <<>>
    /\ files = {}

(***************************************************************************)
(* run(): entry.                                                           *)
(***************************************************************************)
\* "if depth > self.maxdepth"
PastMaxDepth(depth) == depth > cfg.maxdepth

\* a link loop that stops one level late
AtMaxDepthLate(depth) == depth = cfg.maxdepth + 1

\* "if depth == self.maxdepth" in the link loop
AtMaxDepth(depth) == depth = cfg.maxdepth

\* the frame on top returns to its caller; run(depth=0) returning ends the crawl
Return(st) ==
    /\ stack' = Front(st)
    /\ status' = IF Len(st) = 1 THEN "returned" ELSE status

EvReturn(f, backs) == Ev("return", f.depth, f.clicks, Cur, backs)

\* the terminal check: one back(), then return
RunTerminal ==
    /\ InRun("enter")
    /\ PastMaxDepth(Top.depth)
    /\ history' = Back(history)
    /\ trace' = trace \o << Ev("back", Top.depth, 0, Cur, 0),
                            EvReturn(Top, Top.backs + 1) >>
    /\ Return(stack)
    /\ UNCHANGED <<cfg, site, kc, gen, files>>

\* save_screenshot() and form_vectors() on the page run() starts on
RunBegin ==
    /\ InRun("enter")
    /\ ~PastMaxDepth(Top.depth)
    /\ IF ScreenshotRaises
       THEN /\ status' = "TypeError"
            /\ UNCHANGED <<stack, trace>>
       ELSE /\ trace' = Append(trace, EvScreenshot(Top.depth, Cur))
            /\ stack' = [stack EXCEPT ![Len(stack)] =
                            [Top EXCEPT !.pc = "forms", !.hist = history]]
            /\ UNCHANGED status
    /\ UNCHANGED <<cfg, site, history, kc, gen, files>>

(***************************************************************************)
(* run(): the form scan.                                                   *)
(***************************************************************************)
\* "self.form_match.lower() not in form_data.lower()" is false
FormMatches(form_data) == Contains(Lower(cfg.form_match), Lower(form_data))

\* a form that does not match: continue
FormSkip ==
    /\ InRun("forms")
    /\ Top.ix < Len(FormVectors)
    /\ ~FormMatches(FormVectors[Top.ix + 1])
    /\ stack' = [stack EXCEPT ![Len(stack)] = [Top EXCEPT !.ix = Top.ix + 1]]
    /\ UNCHANGED <<cfg, site, history, kc, gen, status, trace, files>>

\* a form that matches: the search page is saved and the generator made
FormMatch ==
    /\ InRun("forms")
    /\ Top.ix < Len(FormVectors)
    /\ FormMatches(FormVectors[Top.ix + 1])
    /\ files' = SaveTrainingPage(files, "search_pages", Cur)
    /\ IF ScreenshotRaises
       THEN /\ status' = "TypeError"
            /\ trace' = Append(trace, EvSnapshot("search_pages", Top.depth, Cur))
            /\ UNCHANGED <<stack, gen>>
       ELSE /\ trace' = trace \o << EvSnapshot("search_pages", Top.depth, Cur),
                                    EvScreenshot(Top.depth, Cur) >>
            /\ gen' = NewGenerator(cfg)
            /\ stack' = [stack EXCEPT ![Len(stack)] = [Top EXCEPT !.pc = "plans"]]
            /\ UNCHANGED status
    /\ UNCHANGED <<cfg, site, history, kc>>

\* "for input_phase in input_gen": the next plan
PlanNext ==
    /\ InRun("plans")
    /\ Len(gen.rest) > 0
    /\ gen' = [gen EXCEPT !.rest = Tail(gen.rest),
                          !.yielded = Append(gen.yielded, Head(gen.rest))]
    /\ stack' = [stack EXCEPT ![Len(stack)] =
                    [Top EXCEPT !.pc = "inputs", !.plan = Head(gen.rest), !.ai = 1]]
    /\ UNCHANGED <<cfg, site, history, kc, status, trace, files>>

\* the generator raises where the loop asks it for a plan
PlanRaise ==
    /\ InRun("plans")
    /\ Len(gen.rest) = 0
    /\ gen.err # NoError
    /\ gen' = [gen EXCEPT !.state = "raised"]
    /\ status' = gen.err
    /\ UNCHANGED <<cfg, site, history, stack, kc, trace, files>>

\* a run() that goes on after a scrape
ScrapeCompleteNever(scraped) == FALSE

\* "if scraped: sys.exit(0)"
ScrapeComplete(scraped) == scraped

\* an exit that first goes back over the link that led to the form
PlansDoneUnwinds ==
    /\ InRun("plans")
    /\ Len(gen.rest) = 0
    /\ gen.err = NoError
    /\ gen' = [gen EXCEPT !.state = "stopped"]
    /\ IF ScrapeComplete(Top.scraped)
       THEN /\ status' = "exit"
            /\ history' = Back(history)
            /\ trace' = trace \o << Ev("back", Top.depth, 0, Cur, 0),
                                    Ev("exit", Top.depth, Top.ix, Cur, 0) >>
            /\ UNCHANGED stack
       ELSE /\ stack' = [stack EXCEPT ![Len(stack)] =
                            [Top EXCEPT !.pc = "forms", !.ix = Top.ix + 1]]
            /\ UNCHANGED <<status, trace, history>>
    /\ UNCHANGED <<cfg, site, kc, files>>

\* the generator is exhausted: exit, or go on with the next form
PlansDone ==
    /\ InRun("plans")
    /\ Len(gen.rest) = 0
    /\ gen.err = NoError
    /\ gen' = [gen EXCEPT !.state = "stopped"]
    /\ IF ScrapeComplete(Top.scraped)
       THEN /\ status' = "exit"
            /\ trace' = Append(trace, Ev("exit", Top.depth, Top.ix, Cur, 0))
            /\ UNCHANGED stack
       ELSE /\ stack' = [stack EXCEPT ![Len(stack)] =
                            [Top EXCEPT !.pc = "forms", !.ix = Top.ix + 1]]
            /\ UNCHANGED <<status, trace>>
    /\ UNCHANGED <<cfg, site, history, kc, files>>

\* control.input(ix, input_index, input_string) for one assignment
PlanInput ==
    /\ InRun("inputs")
    /\ Top.ai <= Len(Top.plan)
    /\ trace' = Append(trace, EvInput(Top.depth, Top.ix, Cur, Top.plan[Top.ai]))
    /\ stack' = [stack EXCEPT ![Len(stack)] = [Top EXCEPT !.ai = Top.ai + 1]]
    /\ UNCHANGED <<cfg, site, history, kc, gen, status, files>>

\* the bound run() passes to keep_clicking_next_btns
PostSubmitMaxdepth == 3

\* where submitting the search form leads
SubmitTarget == ResultBase

\* save_screenshot, control.submit(ix), save_screenshot, and the call of
\* keep_clicking_next_btns(maxdepth=3)
PlanSubmit ==
    /\ InRun("inputs")
    /\ Top.ai > Len(Top.plan)
    /\ IF ScreenshotRaises
       THEN /\ status' = "TypeError"
            /\ UNCHANGED <<history, stack, kc, trace>>
       ELSE /\ history' = Navigate(history, SubmitTarget)
            /\ trace' = trace \o << EvScreenshot(Top.depth, Cur),
                                    Ev("submit", Top.depth, Top.ix, Cur, 0),
                                    EvScreenshot(Top.depth, SubmitTarget) >>
            /\ kc' = [KcIdle EXCEPT !.active = TRUE, !.pc = "loop",
                                     !.maxdepth = PostSubmitMaxdepth,
                                     !.start = history']
            /\ stack' = [stack EXCEPT ![Len(stack)] = [Top EXCEPT !.pc = "next"]]
            /\ UNCHANGED status
    /\ UNCHANGED <<cfg, site, gen, files>>

\* a plan loop that does not go back after the follower
PlanBackMissing ==
    /\ InRun("next")
    /\ stack' = [stack EXCEPT ![Len(stack)] =
                    [Top EXCEPT !.pc = "plans", !.scraped = TRUE]]
    /\ UNCHANGED <<cfg, site, history, kc, gen, status, trace, files>>

\* after keep_clicking_next_btns returned: scraped = True, control.back()
PlanBack ==
    /\ InRun("next")
    /\ history' = Back(history)
    /\ trace' = Append(trace, Ev("back", Top.depth, Top.ix, Cur, 0))
    /\ stack' = [stack EXCEPT ![Len(stack)] =
                    [Top EXCEPT !.pc = "plans", !.scraped = TRUE,
                                !.backs = Top.backs + 1]]
    /\ UNCHANGED <<cfg, site, kc, gen, status, files>>

(***************************************************************************)
(* keep_clicking_next_btns(maxdepth): the parameter is never read.         *)
(***************************************************************************)
\* a follower without a bound
BoundReachedNever(depth) == FALSE

\* a follower that takes formdepth 0 for a bound like any other
BoundReachedZero(depth) == depth > cfg.formdepth

\* "if self.formdepth and depth > self.formdepth"
BoundReached(depth) == cfg.formdepth # 0 /\ depth > cfg.formdepth

\* "self.next_match.lower() in button.lower()"
NextMatches(button) ==
    \E match \in {Lower(cfg.next_match)}, text \in {Lower(button)} :
        Contains(match, text)

\* the last button of button_data that matches
NextButtonLast(button_data) ==
    IF \E i \in 1..Len(button_data) : NextMatches(button_data[i])
    THEN CHOOSE i \in 1..Len(button_data) :
            /\ NextMatches(button_data[i])
            /\ \A j \in (i + 1)..Len(button_data) : ~NextMatches(button_data[j])
    ELSE 0

\* the first button of button_data that matches (from 1), 0 when none does
NextButton(button_data) ==
    IF \E i \in 1..Len(button_data) : NextMatches(button_data[i])
    THEN CHOOSE i \in 1..Len(button_data) :
            /\ NextMatches(button_data[i])
            /\ \A j \in 1..(i - 1) : ~NextMatches(button_data[j])
    ELSE 0

\* a follower that goes back once too few
UnwindCountShort(depth) == IF depth > 0 THEN depth - 1 ELSE 0

\* "for _ in range(depth)"
UnwindCount(depth) == depth

\* the loop ends on the bound
KcnbBound ==
    /\ Running /\ kc.active /\ kc.pc = "loop"
    /\ BoundReached(kc.depth)
    /\ kc' = [kc EXCEPT !.pc = "unwind", !.how = "bound"]
    /\ UNCHANGED <<cfg, site, history, stack, gen, status, trace, files>>

\* one iteration that finds a next button and clicks it
KcnbClick ==
    /\ Running /\ kc.active /\ kc.pc = "loop"
    /\ ~BoundReached(kc.depth)
    /\ NextButton(ButtonVectors) # 0
    /\ kc.depth < MaxHops
    /\ \E ix \in {NextButton(ButtonVectors)}, d \in {Top.depth} :
       \E to \in {CurPage.buttons[ix].to} :
           IF ScreenshotRaises
           THEN /\ status' = "TypeError"
                /\ files' = SaveTrainingPage(files, "data_pages", Cur)
                /\ trace' = Append(trace, EvSnapshot("data_pages", d, Cur))
                /\ UNCHANGED <<history, kc>>
           ELSE /\ history' = Navigate(history, to)
                /\ files' = SaveTrainingPage(
                                SaveTrainingPage(files, "data_pages", Cur),
                                "data_pages", to)
                /\ trace' = trace \o << EvSnapshot("data_pages", d, Cur),
                                        EvScreenshot(d, Cur),
                                        Ev("select_button", d, ix - 1, Cur, 0),
                                        EvSnapshot("data_pages", d, to),
                                        EvScreenshot(d, to) >>
                /\ kc' = [kc EXCEPT !.depth = kc.depth + 1,
                                    !.clicks = kc.clicks + 1]
                /\ UNCHANGED status
    /\ UNCHANGED <<cfg, site, stack, gen>>

\* one iteration that finds no next button
KcnbNoNext ==
    /\ Running /\ kc.active /\ kc.pc = "loop"
    /\ ~BoundReached(kc.depth)
    /\ NextButton(ButtonVectors) = 0
    /\ files' = SaveTrainingPage(files, "data_pages", Cur)
    /\ IF ScreenshotRaises
       THEN /\ status' = "TypeError"
            /\ trace' = Append(trace, EvSnapshot("data_pages", Top.depth, Cur))
            /\ UNCHANGED kc
       ELSE /\ trace' = trace \o << EvSnapshot("data_pages", Top.depth, Cur),
                                    EvScreenshot(Top.depth, Cur) >>
            /\ kc' = [kc EXCEPT !.pc = "unwind", !.how = "not found"]
            /\ UNCHANGED status
    /\ UNCHANGED <<cfg, site, history, stack, gen>>

\* "Going back from 'next'...": one control.back()
KcnbBack ==
    /\ Running /\ kc.active /\ kc.pc = "unwind"
    /\ kc.backs < UnwindCount(kc.depth)
    /\ history' = Back(history)
    /\ trace' = Append(trace, Ev("next_back", Top.depth, 0, Cur, 0))
    /\ kc' = [kc EXCEPT !.backs = kc.backs + 1]
    /\ UNCHANGED <<cfg, site, stack, gen, status, files>>

\* the function returns to run()
KcnbReturn ==
    /\ Running /\ kc.active /\ kc.pc = "unwind"
    /\ kc.backs >= UnwindCount(kc.depth)
    /\ kc' = [kc EXCEPT !.active = FALSE, !.pc = "returned", !.end = history]
    /\ UNCHANGED <<cfg, site, history, stack, gen, status, trace, files>>

(***************************************************************************)
(* run(): link ranking and recursion.                                      *)
(***************************************************************************)
\* the sort key: "self.link_priority in r[1].lower()"
HasPriority(text) == Contains(cfg.link_priority, Lower(text))

\* link_zip after the stable sort with reverse=True: the indices (from 0) of
\* the links with the key first, then the others, each in page order
RankLinks(link_vectors) ==
    LET idx == [i \in 1..Len(link_vectors) |-> i]
        yes(i) == HasPriority(link_vectors[i])
        no(i) == ~HasPriority(link_vectors[i])
        order == SelectSeq(idx, yes) \o SelectSeq(idx, no)
    IN  [k \in 1..Len(order) |-> order[k] - 1]

\* no form is left to scan: the links are ranked
LinksStart ==
    /\ InRun("forms")
    /\ Top.ix >= Len(FormVectors)
    /\ stack' = [stack EXCEPT ![Len(stack)] =
                    [Top EXCEPT !.pc = "links", !.links = RankLinks(LinkVectors),
                                !.li = 1]]
    /\ UNCHANGED <<cfg, site, history, kc, gen, status, trace, files>>

\* select_link(ix) succeeds: run(depth + 1) on the page it leads to
LinkClicked ==
    /\ InRun("links")
    /\ Top.li <= Len(Top.links)
    /\ ~AtMaxDepth(Top.depth)
    /\ LET ix == Top.links[Top.li]
       IN  /\ history' = Navigate(history, CurPage.links[ix + 1].to)
           /\ trace' = Append(trace, Ev("select_link", Top.depth, ix, Cur, 1))
           /\ stack' = Append([stack EXCEPT ![Len(stack)] =
                                  [Top EXCEPT !.li = Top.li + 1,
                                              !.clicks = Top.clicks + 1]],
                              Frame(Top.depth + 1))
    /\ UNCHANGED <<cfg, site, kc, gen, status, files>>

\* a failed select_link answered with a control.back()
LinkFailedBack ==
    /\ InRun("links")
    /\ Top.li <= Len(Top.links)
    /\ ~AtMaxDepth(Top.depth)
    /\ history' = Back(history)
    /\ trace' = trace \o << Ev("select_link", Top.depth, Top.links[Top.li], Cur, 0),
                            Ev("back", Top.depth, 0, Cur, 0) >>
    /\ stack' = [stack EXCEPT ![Len(stack)] = [Top EXCEPT !.li = Top.li + 1]]
    /\ UNCHANGED <<cfg, site, kc, gen, status, files>>

\* select_link(ix) fails: the next link
LinkFailed ==
    /\ InRun("links")
    /\ Top.li <= Len(Top.links)
    /\ ~AtMaxDepth(Top.depth)
    /\ trace' = Append(trace,
                       Ev("select_link", Top.depth, Top.links[Top.li], Cur, 0))
    /\ stack' = [stack EXCEPT ![Len(stack)] = [Top EXCEPT !.li = Top.li + 1]]
    /\ UNCHANGED <<cfg, site, history, kc, gen, status, files>>

\* a run() that returns without going back
TrailingBacksNone(depth) == 0

\* the last statement of run(): how many control.back() it issues
TrailingBacks(depth) == 1

\* n times control.back()
RECURSIVE BackTimes(_, _)
BackTimes(h, n) == IF n <= 0 THEN h ELSE BackTimes(Back(h), n - 1)

\* the link loop is over, or broken off at maxdepth: back and return
RunFinish ==
    /\ InRun("links")
    /\ Top.li > Len(Top.links) \/ AtMaxDepth(Top.depth)
    /\ LET n == TrailingBacks(Top.depth)
       IN  /\ history' = BackTimes(history, n)
           /\ trace' = trace
                         \o [k \in 1..n |-> Ev("back", Top.depth, 0, Cur, 0)]
                         \o << EvReturn(Top, Top.backs + n) >>
    /\ Return(stack)
    /\ UNCHANGED <<cfg, site, kc, gen, files>>

Next ==
    \/ RunTerminal
    \/ RunBegin
    \/ FormSkip
    \/ FormMatch
    \/ PlanNext
    \/ PlanRaise
    \/ PlansDone
    \/ PlanInput
    \/ PlanSubmit
    \/ PlanBack
    \/ KcnbBound
    \/ KcnbClick
    \/ KcnbNoNext
    \/ KcnbBack
    \/ KcnbReturn
    \/ LinksStart
    \/ LinkClicked
    \/ LinkFailed
    \/ RunFinish

Spec == Init /\ [][Next]_vars

(***************************************************************************)
(* The input generator on its own: a generator is made for a configuration *)
(* and asked for its plans one by one.                                     *)
(***************************************************************************)
GenAlphabet == {"a", ",", Backslash}

StringsUpTo(n) == UNION {[1..k -> GenAlphabet] : k \in 0..n}

\* "a,b\,c,d"
ExampleFixed == << "a", ",", "b", Backslash, ",", "c", ",", "d" >>

MultiAlphabet == {"0", "a", ":", ",", ";", Backslash}

MultiStringsUpTo(n) == UNION {[1..k -> MultiAlphabet] : k \in 0..n}

\* "0:foo,1:bar;0:baz"
ExampleMulti ==
    << "0", ":", "f", "o", "o", ",", "1", ":", "b", "a", "r", ";",
       "0", ":", "b", "a", "z" >>

\* "10:a\,b\;c": an index of two digits, and both escapes in a value
ExampleMultiEscaped ==
    << "1", "0", ":", "a", Backslash, ",", "b", Backslash, ";", "c" >>

\* the strings form_input_range is drawn from, some with a character twice
IterRanges == UNION {[1..k -> {"a", "b", "c"}] : k \in 1..MaxIter}

GenConfigs ==
    {Config(0, 0, DirNone, InputCfg("fixed_strings", str, 1, <<>>, <<>>)) :
        str \in StringsUpTo(MaxStrLen) \cup {ExampleFixed}}
    \cup
    {Config(0, 0, DirNone, InputCfg("multi_manual", str, 1, <<>>, <<>>)) :
        str \in MultiStringsUpTo(MaxStrLen)
                  \cup {ExampleMulti, ExampleMultiEscaped}}
    \cup
    {Config(0, 0, DirNone, InputCfg("character_iteration", <<>>, n, w, r)) :
        n \in 0..MaxIter, w \in {<<>>, <<"%">>}, r \in IterRanges}
    \cup
    {Config(0, 0, DirNone, InputCfg("character_iteration", <<>>, n, w, <<>>)) :
        n \in 0..1, w \in {<<>>, <<"%">>}}
    \cup {Config(0, 0, DirNone, i) : i \in CrawlInputs}

InitGen ==
    /\ cfg \in GenConfigs
    /\ site = Site("single", 0, FALSE)
    /\ history = <<Blank>>
    /\ stack = <<>>
    /\ kc = KcIdle
    /\ gen = GenIdle
    /\ status = "generator"
    /\ trace = <<>>
    /\ files = {}

\* input_gen = self.make_input_generator()
GenCall ==
    /\ status = "generator"
    /\ gen.state = "none"
    /\ gen' = NewGenerator(cfg)
    /\ UNCHANGED <<cfg, site, history, stack, kc, status, trace, files>>

\* next(input_gen) yields a plan
GenYield ==
    /\ status = "generator"
    /\ gen.state = "live"
    /\ Len(gen.rest) > 0
    /\ gen' = [gen EXCEPT !.rest = Tail(gen.rest),
                          !.yielded = Append(gen.yielded, Head(gen.rest))]
    /\ UNCHANGED <<cfg, site, history, stack, kc, status, trace, files>>

\* next(input_gen) raises
GenRaise ==
    /\ status = "generator"
    /\ gen.state = "live"
    /\ Len(gen.rest) = 0
    /\ gen.err # NoError
    /\ gen' = [gen EXCEPT !.state = "raised"]
    /\ UNCHANGED <<cfg, site, history, stack, kc, status, trace, files>>

\* next(input_gen) finds the generator exhausted
GenStop ==
    /\ status = "generator"
    /\ gen.state = "live"
    /\ Len(gen.rest) = 0
    /\ gen.err = NoError
    /\ gen' = [gen EXCEPT !.state = "stopped"]
    /\ UNCHANGED <<cfg, site, history, stack, kc, status, trace, files>>

NextGen == GenCall \/ GenYield \/ GenRaise \/ GenStop

SpecGen == InitGen /\ [][NextGen]_vars

(***************************************************************************)
(* Properties of the crawl.                                                *)
(***************************************************************************)
Crashed == status \in {"TypeError", "ValueError", "Exception"}

\* C1: whenever run() on page P is at its link loop (about to attempt a
\* link click, or to leave the loop), the browser's history is the one run()
\* started with, so the page shown is P: a successful click and the whole
\* exploration below it have no net effect on the navigation.
C1_SiblingConsistency ==
    (Running /\ ~kc.active /\ Len(stack) > 0 /\ Top.pc = "links")
        => /\ history = Top.hist
           /\ Cur = Last(Top.hist)

\* a second link is about to be attempted from the base page after a first
\* click succeeded and its subtree, itself with a successful click, returned
C1_Witness ==
    /\ InRun("links")
    /\ Top.depth = 0
    /\ Top.clicks >= 1
    /\ Top.li <= Len(Top.links)
    /\ ~AtMaxDepth(Top.depth)
    /\ \E i \in 1..Len(trace) :
          trace[i].op = "select_link" /\ trace[i].depth = 1 /\ trace[i].n = 1

\* C2: when run(depth=0) returns normally, as many backward navigations
\* were issued as advancing actions (successful link clicks, next-button
\* clicks, submits).
C2_BacksEqualAdvances ==
    (status = "returned" /\ cfg.maxdepth >= 0)
        => Count(trace, IsBack) = Count(trace, IsAdvance)

\* C3: when keep_clicking_next_btns returns it has gone back exactly as
\* often as it clicked a next control, and the browser shows the page the
\* function started on.
C3_FollowerUndoesItsHops ==
    kc.pc = "returned" => /\ kc.backs = kc.clicks
                          /\ kc.end = kc.start

\* the follower returned after two or more hops that the bound ended
C3_Witness ==
    kc.pc = "returned" /\ kc.clicks >= 2 /\ kc.how = "bound"

\* C4: with formdepth = F > 0 one call of keep_clicking_next_btns clicks
\* at most F next controls.
C4_HopsWithinFormDepth ==
    cfg.formdepth > 0 => kc.clicks <= cfg.formdepth

\* C5: on a chain whose page after N hops is the first without a next
\* control, with formdepth 0 or formdepth >= N, the follower clicks exactly
\* N times, goes back only after its last click, and has gone back exactly
\* N times when it returns.
C5_ChainFollowedToItsEnd ==
    (~site.cyclic /\ (cfg.formdepth = 0 \/ cfg.formdepth >= site.chain))
        => /\ (kc.active /\ kc.pc = "loop") => kc.backs = 0
           /\ kc.pc = "unwind" => kc.clicks = site.chain
           /\ kc.pc = "returned" => /\ kc.clicks = site.chain
                                    /\ kc.backs = site.chain

\* a chain of two or more hops followed to its end under formdepth = N
C5_Witness ==
    /\ kc.pc = "returned"
    /\ ~site.cyclic
    /\ site.chain >= 2
    /\ cfg.formdepth = site.chain
    /\ kc.clicks = site.chain
    /\ kc.how = "not found"

\* the index (from 0) of the first form of forms that matches, -1 if none
FirstMatch(forms) ==
    IF \E i \in 1..Len(forms) : FormMatches(forms[i])
    THEN (CHOOSE i \in 1..Len(forms) :
            /\ FormMatches(forms[i])
            /\ \A j \in 1..(i - 1) : ~FormMatches(forms[j])) - 1
    ELSE -1

IsSubmit(e) == e.op = "submit"

IsSearchSnapshot(e) == e.op = "snapshot" /\ e.cls = "search_pages"

IsScreenshot(e) == e.op = "screenshot"

SubmittedForms ==
    {<<trace[i].page, trace[i].ix>> : i \in {j \in 1..Len(trace) : IsSubmit(trace[j])}}

C6_Inv ==
    /\ Cardinality(SubmittedForms) <= 1
    /\ Count(trace, IsSearchSnapshot) <= 1
    /\ \A i \in 1..Len(trace) : trace[i].op = "exit" => i = Len(trace)
    /\ \A i, j \in 1..Len(trace) :
          (IsSearchSnapshot(trace[i]) /\ trace[j].op = "select_link") => j < i
    /\ \A k \in 1..Len(stack) :
          IF stack[k].pc = "links"
          THEN stack[k].ix >= Len(PageOf(site, Last(stack[k].hist)).forms)
          ELSE stack[k].clicks = 0
    /\ status = "exit" =>
          /\ Top.ix = FirstMatch(FormVectors)
          /\ Len(gen.rest) = 0
          /\ Count(trace, IsSubmit) = Len(MakeInputGenerator(cfg).plans)

C6_Step ==
    (InRun("plans") /\ Len(gen.rest) = 0 /\ gen.err = NoError) => status' = "exit"

\* C6: the first matching form of a page, once all its plans were attempted,
\* ends the crawl at once (the exit is the last action); only one form is
\* ever matched and submitted, no link is clicked after a form matched, and
\* a frame clicks links only after it has scanned all forms of its page.
C6_SuccessShortCircuit == []C6_Inv /\ [][C6_Step]_vars

\* the crawl ended on the second form of a page one link down, after two
\* plans; the third form of that page matches as well
C6_Witness ==
    /\ status = "exit"
    /\ Top.depth = 1
    /\ Top.ix = 1
    /\ Len(FormVectors) = 3
    /\ FormMatches(FormVectors[3])
    /\ Len(gen.yielded) = 2

(***************************************************************************)
(* The order of actions on a matched form, as an acceptor of the trace:    *)
(* scan (no form matched yet), fill (plan p, assignment a), landed (after  *)
(* a submit), follow and unwind (h hops to undo), done.                    *)
(***************************************************************************)
Phase(ph, p, a, h) == [ph |-> ph, p |-> p, a |-> a, h |-> h]

Bad == Phase("bad", 0, 0, 0)

IsDataSnapshot(e) == e.op = "snapshot" /\ e.cls = "data_pages"

OrderStep(m, e, plans) ==
    IF IsScreenshot(e) THEN m
    ELSE IF m.ph = "scan"
    THEN IF e.op \in {"select_link", "back", "return"} THEN m
         ELSE IF IsSearchSnapshot(e) THEN Phase("fill", 1, 1, 0)
         ELSE Bad
    ELSE IF m.ph = "fill"
    THEN IF m.p > Len(plans)
         THEN IF e.op = "exit" THEN Phase("done", m.p, 1, 0) ELSE Bad
         ELSE IF m.a <= Len(plans[m.p])
         THEN IF /\ e.op = "input"
                 /\ e.n = plans[m.p][m.a].index
                 /\ e.val = plans[m.p][m.a].string
              THEN Phase("fill", m.p, m.a + 1, 0)
              ELSE Bad
         ELSE IF e.op = "submit" THEN Phase("landed", m.p, m.a, 0) ELSE Bad
    ELSE IF m.ph = "landed"
    THEN IF IsDataSnapshot(e) /\ e.page = SubmitTarget
         THEN Phase("follow", m.p, m.a, 0)
         ELSE Bad
    ELSE IF m.ph = "follow"
    THEN IF e.op = "select_button" THEN Phase("follow", m.p, m.a, m.h + 1)
         ELSE IF IsDataSnapshot(e) THEN m
         ELSE IF e.op = "next_back" /\ m.h > 0
         THEN Phase("unwind", m.p, m.a, m.h - 1)
         ELSE IF e.op = "back" /\ m.h = 0 THEN Phase("fill", m.p + 1, 1, 0)
         ELSE Bad
    ELSE IF m.ph = "unwind"
    THEN IF e.op = "next_back" /\ m.h > 0
         THEN Phase("unwind", m.p, m.a, m.h - 1)
         ELSE IF e.op = "back" /\ m.h = 0 THEN Phase("fill", m.p + 1, 1, 0)
         ELSE Bad
    ELSE Bad

RECURSIVE OrderRun(_, _, _, _)
OrderRun(t, i, m, plans) ==
    IF i > Len(t) THEN m
    ELSE OrderRun(t, i + 1, OrderStep(m, t[i], plans), plans)

\* the actions from the search page snapshot on, screenshots left out
ActionsOnForm ==
    LET from == {i \in 1..Len(trace) : IsSearchSnapshot(trace[i])}
        first == CHOOSE i \in from : \A j \in from : i <= j
        rest == SubSeq(trace, first, Len(trace))
        keep(e) == ~IsScreenshot(e)
        kept == SelectSeq(rest, keep)
    IN  IF from = {} THEN <<>>
        ELSE [k \in 1..Len(kept) |->
                IF kept[k].op = "snapshot" THEN kept[k].cls ELSE kept[k].op]

\* C7: on a matched form the search page is saved before the first fill;
\* each plan of the generator, in order, has its assignments input in plan
\* order, then one submit, then the follower (landing page saved as a data
\* page, hops undone), then one back by run(); the exit follows the last
\* plan's back.  One plan of one assignment and no next control give
\* search_pages, input, submit, data_pages, back, exit.
C7_PlanActionOrder ==
    LET plans == MakeInputGenerator(cfg).plans
        m == OrderRun(trace, 1, Phase("scan", 0, 0, 0), plans)
    IN  /\ m.ph # "bad"
        /\ status = "exit" => m.ph = "done" /\ m.p = Len(plans) + 1
        /\ (/\ status = "exit"
            /\ Len(plans) = 1
            /\ Len(plans[1]) = 1
            /\ ~HasNext(site, 0))
              => ActionsOnForm = << "search_pages", "input", "submit",
                                    "data_pages", "back", "exit" >>

\* a crawl that exited after two plans, one of them with two assignments,
\* each followed by pagination hops
C7_Witness ==
    /\ status = "exit"
    /\ Len(gen.yielded) = 2
    /\ Len(gen.yielded[1]) = 2
    /\ kc.clicks >= 1

\* C8: a frame at depth = maxdepth attempts no link click (so every click is
\* issued at a depth below maxdepth and no frame is deeper than maxdepth),
\* and when it returns it has issued exactly one back.
C8_NoLinkAtMaxDepth ==
    /\ \A i \in 1..Len(trace) :
          /\ trace[i].op = "select_link" => trace[i].depth < cfg.maxdepth
          /\ (trace[i].op = "return" /\ trace[i].depth = cfg.maxdepth)
                => trace[i].n = 1 /\ trace[i].ix = 0
    /\ \A k \in 2..Len(stack) : stack[k].depth <= cfg.maxdepth

\* a frame one or more links down, at maxdepth, returned from a page that
\* has links
C8_Witness ==
    \E i \in 1..Len(trace) :
        /\ trace[i].op = "return"
        /\ trace[i].depth = cfg.maxdepth
        /\ cfg.maxdepth >= 1
        /\ Len(PageOf(site, trace[i].page).links) > 0

\* C9: without an output directory every snapshot and screenshot request
\* writes nothing and raises nothing.
C9_NoOutputDirIsNoOp ==
    cfg.output_data_dir.isNone
        => /\ status # "TypeError"
           /\ files = {}
           /\ Count(trace, IsScreenshot) = 0

(***************************************************************************)
(* Properties of the input generator.                                      *)
(***************************************************************************)
\* the values the fixed_strings mode is said to yield for input_strings s
ClaimedFixedValues(s) ==
    LET pieces == SplitUnescaped(s, ",")
    IN  [k \in 1..Len(pieces) |-> Unescape(pieces[k], ",")]

\* C10: fixed_strings yields one single-assignment plan for form_input_index
\* per piece between unescaped commas, in textual order, and an escaped
\* comma is yielded as a comma without its backslash.
C10_FixedStringsAsClaimed ==
    (cfg.input_type = "fixed_strings" /\ gen.state = "stopped")
        => LET want == ClaimedFixedValues(cfg.input_strings)
           IN  gen.yielded =
                  [k \in 1..Len(want) |->
                      << Assignment(cfg.form_input_index, want[k]) >>]

\* the pieces of s between the delimiters delim that no backslash precedes,
\* found by the positions of those delimiters
UnescapedCuts(s, delim) ==
    {i \in 1..Len(s) : s[i] = delim /\ (i = 1 \/ s[i - 1] # Backslash)}

PiecesBetween(s, delim) ==
    LET cuts == UnescapedCuts(s, delim)
        n == Cardinality(cuts)
        cut(k) == IF k = 0 THEN 0
                  ELSE IF k > n THEN Len(s) + 1
                  ELSE CHOOSE i \in cuts : Cardinality({j \in cuts : j < i}) = k - 1
    IN  [k \in 1..(n + 1) |-> SubSeq(s, cut(k - 1) + 1, cut(k) - 1)]

\* s with every backslash that stands before a comma or a semicolon left out
BareDelimiters(s) ==
    LET keep == {i \in 1..Len(s) :
                    ~(s[i] = Backslash /\ i < Len(s) /\ s[i + 1] \in {",", ";"})}
        at(k) == CHOOSE i \in keep : Cardinality({j \in keep : j < i}) = k - 1
    IN  [k \in 1..Cardinality(keep) |-> s[at(k)]]

\* the assignment the multi_manual mode is said to make of entry e
ClaimedMultiEntry(e) ==
    LET colon == CHOOSE i \in 1..Len(e) :
                    e[i] = ":" /\ \A j \in 1..(i - 1) : e[j] # ":"
    IN  Assignment(ParseInt(SubSeq(e, 1, colon - 1)),
                   BareDelimiters(SubSeq(e, colon + 1, Len(e))))

\* the plans the multi_manual mode is said to yield for input_strings s
ClaimedMultiPlans(s) ==
    LET groups == PiecesBetween(s, ";")
    IN  [g \in 1..Len(groups) |->
            LET entries == PiecesBetween(groups[g], ",")
            IN  [k \in 1..Len(entries) |-> ClaimedMultiEntry(entries[k])]]

\* C11: multi_manual, when it yields all its plans, has yielded one plan
\* per group between unescaped semicolons, in textual order, each with one
\* assignment per entry between unescaped commas, in textual order: the
\* index is the integer before the entry's first colon, the value the rest
\* with every escaped comma and escaped semicolon replaced by the bare one.
C11_MultiManualPlans ==
    (cfg.input_type = "multi_manual" /\ gen.state = "stopped")
        => gen.yielded = ClaimedMultiPlans(cfg.input_strings)

\* "0:foo,1:bar;0:baz" has yielded its two plans
C11_WitnessExample ==
    /\ cfg.input_strings = ExampleMulti
    /\ gen.state = "stopped"
    /\ gen.yielded =
          << << Assignment(0, <<"f", "o", "o">>), Assignment(1, <<"b", "a", "r">>) >>,
             << Assignment(0, <<"b", "a", "z">>) >> >>

\* the alphabet character_iteration enumerates over
IterAlphabet ==
    IF Len(cfg.form_input_range) > 0 THEN cfg.form_input_range ELSE LowerCase

Power(n, k) == Cardinality([1..k -> 1..n])

\* the number k written with len digits to the base Len(chars), the digit d
\* shown as chars[d + 1]
RECURSIVE Counted(_, _, _)
Counted(chars, len, k) ==
    IF len = 0 THEN <<>>
    ELSE Append(Counted(chars, len - 1, k \div Len(chars)),
                chars[(k % Len(chars)) + 1])

PairwiseDistinct(s) == \A i, j \in 1..Len(s) : s[i] = s[j] => i = j

YieldedValues == [k \in 1..Len(gen.yielded) |-> gen.yielded[k][1].string]

\* what holds of character_iteration for any form_input_range: Len(A)^L
\* plans, each one assignment to form_input_index, the k-th value being
\* k - 1 counted to the base Len(A), followed by the wildcard if there is one
IterationCounts ==
    LET A == IterAlphabet
        L == cfg.input_minlength
    IN  /\ Len(gen.yielded) = Power(Len(A), L)
        /\ \A k \in 1..Len(gen.yielded) :
              /\ Len(gen.yielded[k]) = 1
              /\ gen.yielded[k][1].index = cfg.form_input_index
              /\ gen.yielded[k][1].string = Counted(A, L, k - 1) \o cfg.wildcard

\* C12 as stated: for the alphabet A (form_input_range, or the lowercase
\* letters) and L = input_minlength the generator yields |A|^L plans in
\* counting order, with the wildcard appended, and the values are distinct.
C12_IterationAsClaimed ==
    (cfg.input_type = "character_iteration" /\ gen.state = "stopped")
        => /\ IterationCounts
           /\ PairwiseDistinct(YieldedValues)

\* what does hold: the number of plans and their order are as stated, |A|
\* being the length of form_input_range, and the values are distinct when no
\* character occurs twice in it.
IterationOverDistinctAlphabet ==
    (cfg.input_type = "character_iteration" /\ gen.state = "stopped")
        => /\ IterationCounts
           /\ PairwiseDistinct(IterAlphabet) => PairwiseDistinct(YieldedValues)

\* the four strings of length two over "ab", each with the wildcard, yielded
IterationExample ==
    /\ cfg.input_type = "character_iteration"
    /\ gen.state = "stopped"
    /\ cfg.form_input_range = <<"a", "b">>
    /\ YieldedValues = << <<"a", "a", "%">>, <<"a", "b", "%">>,
                          <<"b", "a", "%">>, <<"b", "b", "%">> >>

\* order is the positions (from 0) of texts, those with the key first, and
\* the positions of either kind in page order
IsStablePartition(order, texts, key(_)) ==
    /\ Len(order) = Len(texts)
    /\ \A i \in 0..(Len(texts) - 1) : \E k \in 1..Len(order) : order[k] = i
    /\ \A k, l \in 1..Len(order) :
          k < l => \/ key(texts[order[k] + 1]) /\ ~key(texts[order[l] + 1])
                   \/ /\ key(texts[order[k] + 1]) = key(texts[order[l] + 1])
                      /\ order[k] < order[l]

\* the text contains link_priority, letter case aside, as in the example
\* where "Search results" has the priority "search"
ContainsPriority(text) == Contains(Lower(cfg.link_priority), Lower(text))

\* where in the trace the run() on top of the stack was entered
FrameStart ==
    LET clicks == {k \in 1..Len(trace) :
                      /\ trace[k].op = "select_link"
                      /\ trace[k].n = 1
                      /\ trace[k].depth = Top.depth - 1}
    IN  IF clicks = {} THEN 0 ELSE CHOOSE k \in clicks : \A j \in clicks : j <= k

IsSelectHere(e) == e.op = "select_link" /\ e.depth = Top.depth

\* the indices the run() on top of the stack has passed to select_link
SelectedHere ==
    LET evs == SelectSeq(SubSeq(trace, FrameStart + 1, Len(trace)), IsSelectHere)
    IN  [k \in 1..Len(evs) |-> evs[k].ix]

\* the links of a page are tried in the order given by key
TriedInOrder(key(_)) ==
    InRun("links")
        => /\ IsStablePartition(Top.links, LinkVectors, key)
           /\ SelectedHere = SubSeq(Top.links, 1, Len(SelectedHere))

\* C13: the links of a page are tried with those whose text contains
\* link_priority first, then the others, each group in page order, and the
\* index passed to select_link is the link's position on the page.
C13_PriorityLinksFirst == TriedInOrder(ContainsPriority)

\* what does hold: the same with the key the sort uses, which compares the
\* lower-cased text with link_priority as it is configured
LinksTriedByKey == TriedInOrder(HasPriority)

\* [About, Search results, Home] with "search": all three tried, in the order
\* Search results, About, Home
LinksExample ==
    /\ InRun("links")
    /\ LinkVectors = <<TxtAbout, TxtSearch, TxtHome>>
    /\ SelectedHere = <<1, 0, 2>>

InputTypes == {"character_iteration", "fixed_strings", "multi_manual"}

\* an input_type outside the three modes, or fixed_strings / multi_manual
\* with an empty input_strings
InvalidInputConfig ==
    \/ cfg.input_type \notin InputTypes
    \/ cfg.input_type \in {"fixed_strings", "multi_manual"}
          /\ Len(cfg.input_strings) = 0

IsFillOrSubmit(e) == e.op \in {"input", "submit"}

\* with an invalid configuration: nothing is ever filled in or submitted, and
\* an error raised leaves the crawl on the form it matched, its last action
\* the screenshot taken before the plans were asked for
C14_Inv ==
    InvalidInputConfig
        => /\ Count(trace, IsFillOrSubmit) = 0
           /\ gen.state \in {"none", "live", "raised"}
           /\ gen.state = "raised"
                 => /\ status = "Exception"
                    /\ Last(trace).op = "screenshot"
                    /\ Count(trace, IsSearchSnapshot) = 1

\* with an invalid configuration: the step after the plan sequence is obtained
\* raises the error and issues no action, and no step follows the error
C14_Step ==
    InvalidInputConfig
        => /\ gen.state = "live"
                 => /\ gen'.state = "raised"
                    /\ status' = "Exception"
                    /\ UNCHANGED <<history, stack, kc, trace, files>>
           /\ gen.state = "raised" => UNCHANGED vars

\* C14: an input_type outside the three modes, or fixed_strings /
\* multi_manual with an empty input_strings, is fatal: where the plans of a
\* matched form are obtained an error is raised before any fill or submit, and
\* no action (link click, back) follows it.
C14_InvalidInputIsFatal == []C14_Inv /\ [][C14_Step]_vars

\* fixed_strings without strings has raised on the form one link below the
\* base page
C14_Witness ==
    /\ InvalidInputConfig
    /\ cfg.input_type = "fixed_strings"
    /\ status = "Exception"
    /\ gen.state = "raised"
    /\ Len(stack) = 2

\* the HTML contents written to the category c so far
WrittenHtml(c) ==
    {PageHtml(trace[k].page) :
        k \in {j \in 1..Len(trace) :
                  trace[j].op = "snapshot" /\ trace[j].cls = c /\ trace[j].n = 1}}

StoredFiles(c) == {f \in files : f.class = c}

\* C15: with an output directory the files stored under a category are
\* exactly the distinct HTML contents written to it, one file each, named by
\* the SHA-256 of the content whatever the URL and the order of the visits;
\* a content written again leaves one file and raises no error.
C15_ContentAddressedStore ==
    SnapshotWrites
        => \A c \in Classes :
              /\ {f.html : f \in StoredFiles(c)} = WrittenHtml(c)
              /\ Cardinality(StoredFiles(c)) = Cardinality(WrittenHtml(c))
              /\ \A f \in StoredFiles(c) : f.key = Sha256(f.html)
              /\ status # "TypeError"

IsWrittenData(e) == e.op = "snapshot" /\ e.cls = "data_pages" /\ e.n = 1

\* the same HTML was written under data_pages from two URLs and again from
\* the first, leaving one file, and the crawl has gone on to its exit
C15_Witness ==
    /\ SnapshotWrites
    /\ status = "exit"
    /\ \E i, j, k \in 1..Len(trace) :
          /\ i < j /\ j < k
          /\ IsWrittenData(trace[i]) /\ IsWrittenData(trace[j])
          /\ IsWrittenData(trace[k])
          /\ trace[i].page # trace[j].page
          /\ trace[i].page = trace[k].page
          /\ PageHtml(trace[i].page) = PageHtml(trace[j].page)
    /\ Cardinality(StoredFiles("data_pages")) < Count(trace, IsWrittenData)

\* C16: the follower invoked after a submit is capped by the bound run()
\* passes to it (3), whatever formdepth is: it never clicks more "next"
\* controls than that after one submit.
C16_PostSubmitHopsCapped ==
    kc.pc # "idle" => kc.maxdepth = PostSubmitMaxdepth /\ kc.clicks <= kc.maxdepth

\* the step issues a select_link that reports a failure
SelectFails ==
    /\ Len(trace') > Len(trace)
    /\ trace'[Len(trace) + 1].op = "select_link"
    /\ trace'[Len(trace) + 1].n = 0

\* a failed select_link: it is the only action of the step, for the link that
\* was next in the ranking; page, depth and frames stay as they are and the
\* run() goes on to the link after it
C17_Step ==
    SelectFails
        => /\ trace' = Append(trace, Ev("select_link", Top.depth,
                                        Top.links[Top.li], Cur, 0))
           /\ history' = history
           /\ status' = status
           /\ stack' = [stack EXCEPT ![Len(stack)] = [Top EXCEPT !.li = Top.li + 1]]

\* no link of a page is passed to select_link twice
C17_Inv == InRun("links") => PairwiseDistinct(SelectedHere)

\* C17: when select_link reports a failure the engine does not recurse, goes
\* back for nothing, stays on the page at the same depth and goes on with the
\* next link of the ranking; no link is tried again.
C17_FailedClickIsSkipped == []C17_Inv /\ [][C17_Step]_vars

\* on the base page the first link failed, the second was followed and has
\* returned, and the third failed
C17_Witness ==
    /\ InRun("links")
    /\ Top.depth = 0
    /\ SelectedHere = <<1, 0, 2>>
    /\ Len(trace) > 3
    /\ trace[1].op = "screenshot"
    /\ trace[2].op = "select_link" /\ trace[2].n = 0
    /\ Last(trace).op = "select_link" /\ Last(trace).n = 0
    /\ Top.clicks = 1
    /\ history = Top.hist

\* sub occurs in s when the case of the letters is left aside
ContainsIgnoringCase(sub, s) ==
    \E i \in 0..(Len(s) - Len(sub)) :
        \A j \in 1..Len(sub) : LowerChar(s[i + j]) = LowerChar(sub[j])

\* where the step adds a click on a control to the trace
NewButtonClicks ==
    {k \in (Len(trace) + 1)..Len(trace') : trace'[k].op = "select_button"}

\* the positions (from 0) of the controls of the page that match next_match
MatchingControls ==
    {i \in 0..(Len(ButtonVectors) - 1) :
        ContainsIgnoringCase(cfg.next_match, ButtonVectors[i + 1])}

\* one step of the follower is one iteration of its loop: it clicks at most
\* one control, the lowest matching one; the hop counter goes up by the
\* number of clicks and is otherwise only reset by a new call
C18_Step ==
    /\ Cardinality(NewButtonClicks) <= 1
    /\ \A k \in NewButtonClicks :
          /\ trace'[k].ix \in MatchingControls
          /\ \A i \in MatchingControls : trace'[k].ix <= i
          /\ kc.active /\ kc.pc = "loop"
    /\ \/ kc'.depth = kc.depth + Cardinality(NewButtonClicks)
       \/ ~kc.active /\ kc'.active /\ kc'.depth = 0 /\ NewButtonClicks = {}

\* C18: in each iteration of the follower's loop at most one control is
\* clicked, the lowest-indexed one whose text contains next_match whatever
\* the case of the letters; the hop counter goes up by exactly one per click
\* and never otherwise.
C18_FirstMatchWins == [][C18_Step]_vars

\* with next_match "Next Page" the second of the controls Prev, NEXT PAGE,
\* Next Page > was clicked, on two pages, and the hop counter is 2
C18_Witness ==
    /\ cfg.next_match = NextMatchCapitals
    /\ kc.active
    /\ kc.depth = 2
    /\ Len(history) > 3
    /\ ButtonVectors = <<TxtPrev, TxtNextUpper, TxtNextMixed>>
    /\ \E k \in 1..Len(trace) :
          /\ trace[k].op = "select_button"
          /\ trace[k].ix = 1
          /\ trace[k].page = Cur

(***************************************************************************)
(* A crawl that is not held up: the browser answers every action, so the   *)
(* single thread of run() always takes its next step.                      *)
(***************************************************************************)
\* the setups with an output directory or none, whose plans are single
\* strings
LiveSetups ==
    {s \in CrawlSetups :
        /\ s.cfg.input_type \in {"character_iteration", "fixed_strings"}
        /\ s.cfg.output_data_dir \in {DirNone, DirOut}}

InitLive == Init /\ \E s \in LiveSetups : cfg = s.cfg /\ site = s.site

SpecLive == InitLive /\ [][Next]_vars /\ WF_vars(Next)

Terminated == status # "running"

\* C19: with a positive formdepth (and the finite maxdepth, pages and plan
\* sequences of every setup) a crawl started at depth 0 ends, by the success
\* exit, an error, or the return of the outermost run(), also on sites
\* whose links or "next" controls lead round in a circle.
C19_Terminates == cfg.formdepth > 0 => <>Terminated

\* the success exit one link below the base page of a site whose "next"
\* controls lead round in a circle, the follower stopped by formdepth
C19_Witness ==
    /\ cfg.formdepth > 0
    /\ site.cyclic
    /\ status = "exit"
    /\ Top.depth = 1
    /\ kc.how = "bound"
    /\ kc.clicks = cfg.formdepth + 1

IsSelectButton(e) == e.op = "select_button"

IsNextBack(e) == e.op = "next_back"

\* what the run() on top of the stack has done since it was entered
SinceEntry == SubSeq(trace, FrameStart + 1, Len(trace))

IsPlanBack(e) == e.op = "back" /\ e.depth = Top.depth

IsFollowedLink(e) == e.op = "select_link" /\ e.n = 1

IsReturn(e) == e.op = "return"

\* C20: at the success exit from a form found at depth d every submit and
\* every hop of the follower has been undone, the d link clicks that led to
\* the form have not (d advances are outstanding), the browser shows the
\* page of the matched form, and no run() below on the stack has gone back.
C20_StateAtSuccessExit ==
    status = "exit"
        => /\ Count(trace, IsSubmit) > 0
           /\ Count(trace, IsSubmit) = Count(SinceEntry, IsPlanBack)
           /\ Count(trace, IsSubmit) = Top.backs
           /\ Count(trace, IsSelectButton) = Count(trace, IsNextBack)
           /\ Count(trace, IsAdvance) - Count(trace, IsBack) = Top.depth
           /\ Count(trace, IsFollowedLink) - Count(trace, IsReturn) = Top.depth
           /\ history = Top.hist
           /\ Len(history) = Len(<<Blank, BaseUrl>>) + Top.depth
           /\ FormMatches(FormVectors[Top.ix + 1])
           /\ Len(stack) = Top.depth + 1
           /\ \A k \in 1..(Len(stack) - 1) :
                 /\ stack[k].depth = k - 1
                 /\ stack[k].pc = "links"
                 /\ stack[k].backs = 0
                 /\ history[Len(<<Blank, BaseUrl>>) + k] = stack[k + 1].hist[Len(stack[k + 1].hist)]

\* the exit from the form two links below the base page, after another link
\* was followed there and returned from, two submits and four hops
C20_Witness ==
    /\ status = "exit"
    /\ Top.depth = 2
    /\ Count(trace, IsReturn) > 0
    /\ Count(trace, IsSubmit) = 2
    /\ Count(trace, IsSelectButton) = 4
    /\ Cur = 3

====
